---- MODULE Spec2Model ----
(***************************************************************************)
(* Model of the two batch sample programs of python-otel-guidelines:       *)
(*   src/src/batch-otel-metrics.py  (HistrogramTimer, histogram + counter) *)
(*   src/src/batch-otel-traces.py   (SpanTime, one span per scope)         *)
(*                                                                         *)
(* Three specifications share the release handlers (the __exit__ methods): *)
(*   Spec         the two scripts as written (50 scopes around time.sleep, *)
(*                then provider.shutdown()), either script chosen at Init; *)
(*   FairMetrics  the metrics script alone, with weak fairness of its      *)
(*                steps (a sequential script that is not killed runs on);  *)
(*   ScopedSpec   the two context-manager classes driven by an arbitrary   *)
(*                caller: any constructor arguments, and work that may     *)
(*                complete, raise, or be cancelled.                        *)
(*                                                                         *)
(* Time is the reading of time.perf_counter() in ticks of 100 ms.  Its      *)
(* reference point is undefined and the programs only subtract two         *)
(* readings taken within one scope, so the reading at each acquisition is  *)
(* any value in 0 .. MaxStart; within a scope the clock only moves on.     *)
(* The OpenTelemetry SDK is modelled at the calls the scripts make on it:  *)
(* a histogram and a counter aggregate per attribute set, a span is a      *)
(* record that is ended when the `with tracer.start_as_current_span(...)`  *)
(* block is left.                                                          *)
(***************************************************************************)
EXTENDS Integers, Sequences, FiniteSets, TLC

(* ---------------------------------------------------------------------- *)
(* Program constants and model bounds                                      *)
(* ---------------------------------------------------------------------- *)

\* range(50): the number of scopes each script runs
Iterations == 50

\* time.sleep(random.uniform(100, 2000) / 1000): the shortest sleep, in ticks
MinSleep == 1

\* one tick of the logical clock is 100 ms; perf_counter() differences are
\* multiplied by 1000 to get milliseconds, a tick difference by MsPerTick
MsPerTick == 100

\* bound: the longest sleep considered, in ticks (the script allows up to 20)
MaxSleep == 2

\* bound: the number of scopes the arbitrary caller of ScopedSpec opens
MaxScopes == 2

\* bound: the largest perf_counter() reading at the acquisition of a scope
MaxStart == 1

(* ---------------------------------------------------------------------- *)
(* Values                                                                  *)
(* ---------------------------------------------------------------------- *)

\* duration_histogram (module global) and a second histogram a caller may own
DurationHistogram == "duration"
OtherHistogram == "other_duration"
Histograms == {DurationHistogram, OtherHistogram}

\* error_counter (module global) and a second counter a caller may own
ErrorCounter == "error_count"
OtherCounter == "other_error_count"
Counters == {ErrorCounter, OtherCounter}

\* {'op': 'data-process'}: the attribute set the metrics script passes
OpDataProcess == {<<"op", "data-process">>}

\* attribute dictionaries, as sets of <<key, value>> pairs with unique keys
AttrSets == {{}, OpDataProcess}

\* what a caller can pass as `attributes`: nothing (the default {}), None,
\* or a dictionary
AttrArgs == [isNone : {TRUE}, items : {{}}] \cup [isNone : {FALSE}, items : AttrSets]

NoAttrArg == [isNone |-> FALSE, items |-> {}]

\* `attributes or {}`: None and the empty dictionary are falsy
OrEmpty(a) == IF a.isNone \/ a.items = {} THEN {} ELSE a.items

\* exc_type handed to __exit__: None, an Exception raised by the work, or a
\* cancellation (asyncio.CancelledError / KeyboardInterrupt, BaseException)
ExcTypes == {"None", "Exception", "Cancelled"}

\* classes that are instances of Exception
ExceptionClasses == {"Exception"}

VARIABLES
    prog,          \* which program runs: "metrics", "traces" or "caller"
    pc,            \* position: "loop", "body", "exiting", "exit", "crashed"
    i,             \* scopes acquired so far (the for loop's progress)
    args,          \* constructor arguments of the scope being acquired
    self,          \* the context-manager object of the current scope
    exc,           \* exception leaving the work of the current scope
    clock,         \* the reading of time.perf_counter(), in ticks
    work,          \* [start, end] of the latest unit of work
    hist,          \* hist[h][a]: records aggregated by histogram h under a
    histLast,      \* the latest Metric Point recorded on a histogram
    counter,       \* counter[c][a]: total added to counter c under a
    counterLast,   \* the latest Metric Point added to a counter
    logs,          \* diagnostic log entries emitted (logging.error)
    span,          \* the latest span handed to the span processor
    spansEnded,    \* spans handed to the span processor
    rel,           \* what the latest release did
    released,      \* scopes released (calls of __exit__ that returned)
    errReleases,   \* releases that took the error path
    providerState, \* "Running" or "Closed"
    shutdownCalls  \* calls of provider.shutdown()

vars == <<prog, pc, i, args, self, exc, clock, work, hist, histLast, counter,
          counterLast, logs, span, spansEnded, rel, released, errReleases,
          providerState, shutdownCalls>>

(* ---------------------------------------------------------------------- *)
(* The calls made on the OpenTelemetry SDK                                 *)
(* ---------------------------------------------------------------------- *)

\* histogram.record(value, attributes): one more point under `attributes`
HistogramRecord(hs, h, attributes) == [hs EXCEPT ![h][attributes] = @ + 1]

\* counter.add(delta, attributes): the total under `attributes` grows by delta
CounterAdd(cs, c, delta, attributes) == [cs EXCEPT ![c][attributes] = @ + delta]

\* a Metric Point: what one record()/add() call publishes
MetricPoint(instrument, value, attributes) ==
    [instrument |-> instrument, value |-> value, attributes |-> attributes]

NoPoint == MetricPoint("", 0, {})

\* tracer.start_as_current_span(name): a new span, started now, status unset,
\* no attributes (the call passes none)
StartSpan(name, now) ==
    [name |-> name, start_time |-> now, end_time |-> now, ended |-> FALSE,
     status |-> "UNSET", statusCalls |-> <<>>, attributes |-> {},
     events |-> <<>>]

\* span.set_attribute(key, value)
SetAttribute(sp, key, value) ==
    [sp EXCEPT !.attributes = {kv \in @ : kv[1] # key} \cup {<<key, value>>}]

\* span.set_status(Status(code)): a status already OK is final
SetStatus(sp, code) ==
    [sp EXCEPT !.status = IF @ = "OK" THEN @ ELSE code,
               !.statusCalls = Append(@, code)]

\* span.record_exception(e): an "exception" event on the span
RecordException(sp, e) == [sp EXCEPT !.events = Append(@, e)]

\* leaving the `with tracer.start_as_current_span(...)` block ends the span
EndSpan(sp, now) == [sp EXCEPT !.end_time = now, !.ended = TRUE]

NoSpan == StartSpan("", 0)

(* ---------------------------------------------------------------------- *)
(* HistrogramTimer (batch-otel-metrics.py)                                 *)
(* ---------------------------------------------------------------------- *)

NoObject ==
    [kind |-> "none", duration_histogram |-> "", error_counter |-> "",
     name |-> "", attributes |-> {}, start_time |-> 0]

\* HistrogramTimer.__init__
HistrogramTimerInit(duration_histogram, error_counter, attributes) ==
    [kind |-> "HistrogramTimer", duration_histogram |-> duration_histogram,
     error_counter |-> error_counter, name |-> "",
     attributes |-> OrEmpty(attributes), start_time |-> 0]

\* HistrogramTimer.__enter__ and SpanTime.__enter__:
\* self.start_time = time.perf_counter()
Enter(obj, now) == [obj EXCEPT !.start_time = now]

\* duration_ms = (time.perf_counter() - self.start_time) * 1000
DurationMs(obj, now) == (now - obj.start_time) * MsPerTick

\* variant: the handler is written for a class the simulated error is not
Catches_ValueErrorOnly(cls) == cls \in {"ValueError"}

\* `except Exception as e`: catches instances of Exception
Catches(cls) == cls \in ExceptionClasses

\* the exception class raised by `raise Exception('simulated error')`
SimulatedError == "Exception"

\* the histogram HistrogramTimer.__exit__ records into: line 55 names the
\* module-level duration_histogram, not self.duration_histogram
RecordTarget(obj) == DurationHistogram

\* variant: the histogram record sits in an `else` branch, so the error path
\* skips it
HistrogramTimerExit_DurationInElse(obj, now, exc_type, inject) ==
    LET duration_ms == DurationMs(obj, now)
        caught == inject /\ Catches(SimulatedError)
        escaped == inject /\ ~caught
    IN  [escaped |-> escaped,
         errorPath |-> caught,
         errorAdds |-> IF caught THEN 1 ELSE 0,
         errorPoint |-> MetricPoint(obj.error_counter, 1, obj.attributes),
         logEntries |-> IF caught THEN 1 ELSE 0,
         durationRecords |-> IF inject THEN 0 ELSE 1,
         durationPoint |-> MetricPoint(RecordTarget(obj), duration_ms,
                                       obj.attributes)]

\* HistrogramTimer.__exit__(exc_type, exc_value, exc_tb); inject is the
\* outcome of `random.random() < 0.05`.  exc_type is not read.
\* The result says what the call does: escaped (an exception leaves the
\* method), the counter add, the log entry and the histogram record.
HistrogramTimerExit(obj, now, exc_type, inject) ==
    LET duration_ms == DurationMs(obj, now)
        caught == inject /\ Catches(SimulatedError)
        escaped == inject /\ ~caught
    IN  [escaped |-> escaped,
         errorPath |-> caught,
         errorAdds |-> IF caught THEN 1 ELSE 0,
         errorPoint |-> MetricPoint(obj.error_counter, 1, obj.attributes),
         logEntries |-> IF caught THEN 1 ELSE 0,
         durationRecords |-> IF escaped THEN 0 ELSE 1,
         durationPoint |-> MetricPoint(RecordTarget(obj), duration_ms,
                                       obj.attributes)]

(* ---------------------------------------------------------------------- *)
(* SpanTime (batch-otel-traces.py)                                         *)
(* ---------------------------------------------------------------------- *)

\* SpanTime.__init__
SpanTimeInit(name, attributes) ==
    [kind |-> "SpanTime", duration_histogram |-> "", error_counter |-> "",
     name |-> name, attributes |-> OrEmpty(attributes), start_time |-> 0]

\* variant: the except branch records the exception and logs, but leaves
\* the span status as it is
SpanTimeExit_NoErrorStatus(obj, now, exc_type, inject) ==
    LET duration_ms == DurationMs(obj, now)
        sp0 == StartSpan(obj.name, now)
        caught == inject /\ Catches(SimulatedError)
        okSpan == SetStatus(SetAttribute(sp0, "duration", duration_ms), "OK")
        errSpan == RecordException(sp0, SimulatedError)
    IN  [escaped |-> inject /\ ~caught,
         errorPath |-> caught,
         logEntries |-> IF caught THEN 1 ELSE 0,
         span |-> EndSpan(IF ~inject THEN okSpan ELSE errSpan, now)]

\* SpanTime.__exit__(exc_type, exc_value, exc_tb); inject is the outcome of
\* `random.random() < 0.05`.  exc_type is not read.  The span is started
\* here, at release, named self.name, with no attributes.
SpanTimeExit(obj, now, exc_type, inject) ==
    LET duration_ms == DurationMs(obj, now)
        sp0 == StartSpan(obj.name, now)
        caught == inject /\ Catches(SimulatedError)
        escaped == inject /\ ~caught
        okSpan == SetStatus(SetAttribute(sp0, "duration", duration_ms), "OK")
        errSpan == SetStatus(RecordException(sp0, SimulatedError), "ERROR")
        \* an exception leaving the block is recorded by the SDK and the
        \* span is ended with status ERROR
        escSpan == SetStatus(RecordException(sp0, SimulatedError), "ERROR")
    IN  [escaped |-> escaped,
         errorPath |-> caught,
         logEntries |-> IF caught THEN 1 ELSE 0,
         span |-> EndSpan(IF ~inject THEN okSpan
                          ELSE IF caught THEN errSpan ELSE escSpan, now)]

\* neither __exit__ returns a value: None is falsy, so an exception raised by
\* the work is re-raised by the `with` statement after the release
Suppresses == FALSE

(* ---------------------------------------------------------------------- *)
(* State machine                                                           *)
(* ---------------------------------------------------------------------- *)

NoArgs ==
    [kind |-> "none", duration_histogram |-> "", error_counter |-> "",
     name |-> "", attributes |-> NoAttrArg]

NoRelease ==
    [kind |-> "none", exc_type |-> "None", errorPath |-> FALSE,
     escaped |-> FALSE, errorAdds |-> 0, durationRecords |-> 0,
     logEntries |-> 0, spans |-> 0]

\* the state after the module-level set-up of either script: the provider
\* is running, the instruments exist and hold nothing
Start(p) ==
    /\ prog = p
    /\ pc = "loop"
    /\ i = 0
    /\ args = NoArgs
    /\ self = NoObject
    /\ exc = "None"
    /\ clock = 0
    /\ work = [start |-> 0, end |-> 0]
    /\ hist = [h \in Histograms |-> [a \in AttrSets |-> 0]]
    /\ histLast = NoPoint
    /\ counter = [c \in Counters |-> [a \in AttrSets |-> 0]]
    /\ counterLast = NoPoint
    /\ logs = 0
    /\ span = NoSpan
    /\ spansEnded = 0
    /\ rel = NoRelease
    /\ released = 0
    /\ errReleases = 0
    /\ providerState = "Running"
    /\ shutdownCalls = 0

Init == \E p \in {"metrics", "traces"} : Start(p)

InitMetrics == Start("metrics")

InitCaller == Start("caller")

\* the number of scopes the running program opens
ScopesToRun == IF prog = "caller" THEN MaxScopes ELSE Iterations

\* variant: the loop runs once more than its range
LoopHasNext_Inclusive(n) == n <= ScopesToRun

\* `for i in range(50)`: there is a next iteration
LoopHasNext(n) == n < ScopesToRun

\* the `with` statement acquires a scope: the constructor, then __enter__
Acquire(a, obj) ==
    /\ pc = "loop"
    /\ LoopHasNext(i)
    /\ i' = i + 1
    /\ args' = a
    /\ clock' \in 0 .. MaxStart
    /\ self' = Enter(obj, clock')
    /\ exc' = "None"
    /\ pc' = "body"
    /\ UNCHANGED <<prog, work, hist, histLast, counter, counterLast,
                   logs, span, spansEnded, rel, released, errReleases,
                   providerState, shutdownCalls>>

\* metrics script: with HistrogramTimer(duration_histogram, error_counter,
\*                                      {'op': 'data-process'})
MetricsAcquire ==
    /\ prog = "metrics"
    /\ LET a == [isNone |-> FALSE, items |-> OpDataProcess]
       IN  Acquire([kind |-> "HistrogramTimer",
                    duration_histogram |-> DurationHistogram,
                    error_counter |-> ErrorCounter, name |-> "",
                    attributes |-> a],
                   HistrogramTimerInit(DurationHistogram, ErrorCounter, a))

\* traces script: with SpanTime('data-process')
TracesAcquire ==
    /\ prog = "traces"
    /\ Acquire([kind |-> "SpanTime", duration_histogram |-> "",
                error_counter |-> "", name |-> "data-process",
                attributes |-> NoAttrArg],
               SpanTimeInit("data-process", NoAttrArg))

\* an arbitrary caller: either class, any instruments, any attributes
CallerAcquire ==
    /\ prog = "caller"
    /\ \E a \in AttrArgs :
        \/ \E h \in Histograms, c \in Counters :
              Acquire([kind |-> "HistrogramTimer", duration_histogram |-> h,
                       error_counter |-> c, name |-> "", attributes |-> a],
                      HistrogramTimerInit(h, c, a))
        \/ Acquire([kind |-> "SpanTime", duration_histogram |-> "",
                    error_counter |-> "", name |-> "data-process",
                    attributes |-> a],
                   SpanTimeInit("data-process", a))

\* the unit of work takes s ticks and leaves with e
Work(s, e) ==
    /\ pc = "body"
    /\ clock' = clock + s
    /\ work' = [start |-> clock, end |-> clock + s]
    /\ exc' = e
    /\ pc' = "exiting"
    /\ UNCHANGED <<prog, i, args, self, hist, histLast, counter, counterLast,
                   logs, span, spansEnded, rel, released, errReleases,
                   providerState, shutdownCalls>>

\* both scripts: time.sleep(random.uniform(100, 2000) / 1000) returns normally
Sleep ==
    /\ prog \in {"metrics", "traces"}
    /\ \E s \in MinSleep .. MaxSleep : Work(s, "None")

\* an arbitrary caller's work completes, raises or is cancelled
CallerWork ==
    /\ prog = "caller"
    /\ \E s \in MinSleep .. MaxSleep, e \in ExcTypes : Work(s, e)

\* where control goes once __exit__ is over: an exception that escaped the
\* release, or one raised by the work and not suppressed, leaves the `with`
\* statement; the scripts have no handler, an arbitrary caller has one
AfterRelease(escaped, exc_type) ==
    IF escaped \/ (exc_type # "None" /\ ~Suppresses)
    THEN IF prog = "caller" THEN "loop" ELSE "crashed"
    ELSE "loop"

\* the `with` statement releases a HistrogramTimer scope
HistrogramTimer_exit ==
    /\ pc = "exiting"
    /\ self.kind = "HistrogramTimer"
    /\ \E inject \in BOOLEAN :
        LET r == HistrogramTimerExit(self, clock, exc, inject) IN
        /\ counter' = IF r.errorAdds > 0
                      THEN CounterAdd(counter, r.errorPoint.instrument,
                                      r.errorPoint.value,
                                      r.errorPoint.attributes)
                      ELSE counter
        /\ counterLast' = IF r.errorAdds > 0 THEN r.errorPoint ELSE counterLast
        /\ logs' = logs + r.logEntries
        /\ hist' = IF r.durationRecords > 0
                   THEN HistogramRecord(hist, r.durationPoint.instrument,
                                        r.durationPoint.attributes)
                   ELSE hist
        /\ histLast' = IF r.durationRecords > 0 THEN r.durationPoint
                       ELSE histLast
        /\ rel' = [kind |-> self.kind, exc_type |-> exc,
                   errorPath |-> r.errorPath, escaped |-> r.escaped,
                   errorAdds |-> r.errorAdds,
                   durationRecords |-> r.durationRecords,
                   logEntries |-> r.logEntries, spans |-> 0]
        /\ released' = released + 1
        /\ errReleases' = errReleases + (IF inject THEN 1 ELSE 0)
        /\ pc' = AfterRelease(r.escaped, exc)
    /\ UNCHANGED <<prog, i, args, self, exc, clock, work, span, spansEnded,
                   providerState, shutdownCalls>>

\* the `with` statement releases a SpanTime scope
SpanTime_exit ==
    /\ pc = "exiting"
    /\ self.kind = "SpanTime"
    /\ \E inject \in BOOLEAN :
        LET r == SpanTimeExit(self, clock, exc, inject) IN
        /\ span' = r.span
        /\ spansEnded' = spansEnded + 1
        /\ logs' = logs + r.logEntries
        /\ rel' = [kind |-> self.kind, exc_type |-> exc,
                   errorPath |-> r.errorPath, escaped |-> r.escaped,
                   errorAdds |-> 0, durationRecords |-> 0,
                   logEntries |-> r.logEntries, spans |-> 1]
        /\ released' = released + 1
        /\ errReleases' = errReleases + (IF inject THEN 1 ELSE 0)
        /\ pc' = AfterRelease(r.escaped, exc)
    /\ UNCHANGED <<prog, i, args, self, exc, clock, work, hist, histLast,
                   counter, counterLast, providerState, shutdownCalls>>

\* variant: provider.shutdown() is indented into the loop body, so it runs
\* after every scope
ProviderShutdown_InLoop ==
    /\ pc = "loop"
    /\ released = i
    /\ i > shutdownCalls
    /\ providerState' = "Closed"
    /\ shutdownCalls' = shutdownCalls + 1
    /\ pc' = IF LoopHasNext(i) THEN "loop" ELSE "exit"
    /\ UNCHANGED <<prog, i, args, self, exc, clock, work, hist, histLast,
                   counter, counterLast, logs, span, spansEnded, rel,
                   released, errReleases>>

\* provider.shutdown(), the statement after the loop, then the script ends
ProviderShutdown ==
    /\ pc = "loop"
    /\ ~LoopHasNext(i)
    /\ providerState' = "Closed"
    /\ shutdownCalls' = shutdownCalls + 1
    /\ pc' = "exit"
    /\ UNCHANGED <<prog, i, args, self, exc, clock, work, hist, histLast,
                   counter, counterLast, logs, span, spansEnded, rel,
                   released, errReleases>>

Next ==
    \/ MetricsAcquire
    \/ TracesAcquire
    \/ Sleep
    \/ HistrogramTimer_exit
    \/ SpanTime_exit
    \/ ProviderShutdown

Spec == Init /\ [][Next]_vars

NextMetrics ==
    \/ MetricsAcquire
    \/ Sleep
    \/ HistrogramTimer_exit
    \/ ProviderShutdown

\* the script is sequential and nothing stops it: a step that can be taken
\* is taken
FairMetrics == InitMetrics /\ [][NextMetrics]_vars /\ WF_vars(NextMetrics)

NextCaller ==
    \/ CallerAcquire
    \/ CallerWork
    \/ HistrogramTimer_exit
    \/ SpanTime_exit
    \/ ProviderShutdown

ScopedSpec == InitCaller /\ [][NextCaller]_vars

(* ---------------------------------------------------------------------- *)
(* Observations used by the properties                                     *)
(* ---------------------------------------------------------------------- *)

RECURSIVE SumOver(_, _)
SumOver(f, S) ==
    IF S = {} THEN 0
    ELSE LET x == CHOOSE y \in S : TRUE IN f[x] + SumOver(f, S \ {x})

\* all records a histogram received, over every attribute set
HistTotal(h) == SumOver(hist[h], AttrSets)

\* the cumulative value of a counter, over every attribute set
CounterTotal(c) == SumOver(counter[c], AttrSets)

\* the scope acquired last has been released: args, self, work, rel and the
\* latest points and span all belong to that one scope
Released == released > 0 /\ pc \notin {"body", "exiting"}

(* ---------------------------------------------------------------------- *)
(* Properties                                                              *)
(* ---------------------------------------------------------------------- *)

\* C1: every released HistrogramTimer scope produced exactly one duration
\* record, and one error-counter increment of delta 1 exactly when the
\* release took the error path (the duration record is produced on the
\* error path too); hence records = released scopes and the error total =
\* error-path releases, after any sequence of scopes.
C1_OneDurationOneError ==
    prog = "metrics" =>
        /\ HistTotal(DurationHistogram) = released
        /\ CounterTotal(ErrorCounter) = errReleases
        /\ rel.kind = "HistrogramTimer" =>
              /\ rel.durationRecords = 1
              /\ rel.errorAdds = (IF rel.errorPath THEN 1 ELSE 0)
              /\ (rel.errorPath => counterLast.value = 1)

C1_Witness ==
    /\ prog = "metrics"
    /\ Released
    /\ rel.errorPath
    /\ rel.durationRecords = 1
    /\ errReleases >= 1
    /\ errReleases < released

\* C2 (as claimed): when the work leaves the scope with an exception or a
\* cancellation (exc_type is not None), the release classifies the outcome
\* as error: HistrogramTimer increments the error counter, SpanTime marks
\* the span status error.
C2_FaultIsErrorOutcome ==
    (Released /\ rel.exc_type # "None") =>
        /\ rel.kind = "HistrogramTimer" => rel.errorAdds = 1
        /\ rel.kind = "SpanTime" => span.status = "ERROR"

\* C3 (as claimed): every span finalized by SpanTime.__exit__ carries the
\* measured duration in its 'duration' attribute, on the error path too.
C3_SpanAlwaysHasDuration ==
    (Released /\ rel.kind = "SpanTime") =>
        \E kv \in span.attributes :
            kv[1] = "duration" /\ kv[2] = DurationMs(self, work.end)

\* C4 (as claimed): every record published at release carries the attribute
\* set supplied at acquisition (the empty set for none or None): the
\* duration record, the error increment (same set as the duration record)
\* and, in span mode, the finalized span.
C4_RecordsCarryAttributes ==
    Released =>
        /\ rel.kind = "HistrogramTimer" =>
              /\ histLast.attributes = OrEmpty(args.attributes)
              /\ rel.errorAdds = 1 =>
                    counterLast.attributes = histLast.attributes
        /\ rel.kind = "SpanTime" =>
              OrEmpty(args.attributes) \subseteq span.attributes

\* C5 (as claimed): in span mode the span is started when the scope is
\* acquired and ended at release, so its start-to-end interval covers the
\* unit of work.
C5_SpanCoversWork ==
    (Released /\ rel.kind = "SpanTime") =>
        /\ span.start_time <= work.start
        /\ span.end_time >= work.end

\* C6: the injected 'simulated error' is always caught inside the release:
\* it never escapes __exit__, the script never dies of it, and after every
\* release the next scope can be acquired or shutdown can be called.
C6_InjectedFailureContained ==
    /\ ~rel.escaped
    /\ pc # "crashed"
    /\ Released /\ pc # "exit" =>
          ENABLED (MetricsAcquire \/ TracesAcquire \/ ProviderShutdown)

C6_Witness ==
    /\ pc = "body"
    /\ i >= 2
    /\ rel.errorPath
    /\ errReleases >= 1

\* C7: the metrics script always ends by reaching shutdown, and then the
\* histogram holds exactly 50 records and the error counter's total is the
\* number of releases that injected a failure, whatever that number is.
C7_EndToEnd ==
    /\ <>(pc = "exit")
    /\ [](pc = "exit" =>
            /\ HistTotal(DurationHistogram) = Iterations
            /\ CounterTotal(ErrorCounter) = errReleases
            /\ errReleases \in 0 .. Iterations
            /\ shutdownCalls = 1)

C7_Witness ==
    /\ pc = "exit"
    /\ HistTotal(DurationHistogram) = Iterations
    /\ CounterTotal(ErrorCounter) = Iterations

\* C8: shutdown is called exactly once before the script ends, only after
\* every scope was released, and after it no scope is acquired and no record
\* is written: every record is produced while the provider is running.
C8_ShutdownOnceAfterAll ==
    /\ [](/\ shutdownCalls <= 1
          /\ shutdownCalls = 1 => released = Iterations
          /\ pc = "exit" => shutdownCalls = 1)
    /\ [][(\/ i' # i
           \/ hist' # hist
           \/ counter' # counter
           \/ spansEnded' # spansEnded
           \/ released' # released)
          => (providerState = "Running" /\ shutdownCalls = 0)]_vars

C8_Witness ==
    /\ pc = "exit"
    /\ providerState = "Closed"
    /\ shutdownCalls = 1
    /\ released = Iterations
    /\ prog = "traces"

\* C9 (as claimed): releasing a HistrogramTimer adds one record to the
\* histogram passed to its constructor and leaves every other histogram
\* unchanged.
C9_RecordsIntoOwnHistogram ==
    [][(released' = released + 1 /\ self.kind = "HistrogramTimer") =>
          \A h \in Histograms :
              hist'[h] = IF h = self.duration_histogram
                         THEN HistogramRecord(hist, h, self.attributes)[h]
                         ELSE hist[h]]_vars

\* C10: every released SpanTime scope finalized exactly one span whose
\* status is set exactly once: error, with the fault recorded as an
\* exception event and one log entry, exactly when the release took the
\* error path, and ok with no event and no log entry otherwise.
C10_OneSpanOneStatus ==
    prog = "traces" =>
        /\ spansEnded = released
        /\ logs = errReleases
        /\ rel.kind = "SpanTime" =>
              /\ rel.spans = 1
              /\ span.ended
              /\ span.status # "UNSET"
              /\ Len(span.statusCalls) = 1
              /\ span.status = "ERROR" <=> rel.errorPath
              /\ span.status = "OK" <=> ~rel.errorPath
              /\ span.events = (IF rel.errorPath THEN <<SimulatedError>>
                                ELSE <<>>)
              /\ rel.logEntries = (IF rel.errorPath THEN 1 ELSE 0)

C10_Witness ==
    /\ prog = "traces"
    /\ Released
    /\ rel.errorPath
    /\ span.status = "ERROR"
    /\ spansEnded >= 2
    /\ errReleases < released

====
